---- MODULE Spec2Model ----
(***************************************************************************)
(* Model of afl_tipping_dashboard.py: the three Squiggle fetch functions,  *)
(* the games/tips merge, the filters of the main block, the upset          *)
(* predicate, the countdown formatter and the logo URL builder.            *)
(*                                                                         *)
(* Conventions.                                                            *)
(*  - A JSON object is a function from key strings to values; a key the    *)
(*    object lacks is outside its DOMAIN ("k" in obj  <=>  "k" \in DOMAIN).*)
(*  - A Python str is a sequence of one-character strings.                 *)
(*  - A value that may be None / NaN is <<>> (None) or <<v>> (the value).  *)
(*  - A DataFrame is the sequence of its rows; its columns are the fields  *)
(*    of its rows, and a DataFrame with no rows has no columns (this is    *)
(*    what pd.DataFrame() and pd.DataFrame([]) construct).                 *)
(*  - Odds are in tenths (25 is 2.5); times are in ticks, TicksPerSecond   *)
(*    to the second.                                                       *)
(***************************************************************************)
EXTENDS Integers, Sequences, FiniteSets, TLC

VARIABLES
    pc,             \* position of the script
    teams_resp,     \* HTTP response of the teams endpoint
    games_resp,     \* HTTP response of the games endpoint
    tips_resp,      \* HTTP response of the tips endpoint
    all_games,      \* line 166
    tips_df,        \* line 167
    warnings,       \* st.warning calls, in order
    selected_team,  \* line 178
    min_conf,       \* line 179
    combined_df,    \* line 174
    filtered_df,    \* lines 181-185
    upsets,         \* line 204
    page,           \* what the pass has put on the page, in order
    team_name,      \* argument of get_team_logo
    logo,           \* result of get_team_logo
    start_time,     \* argument of format_countdown
    now,            \* datetime.utcnow() read by format_countdown
    countdown       \* result of format_countdown

vars == <<pc, teams_resp, games_resp, tips_resp, all_games, tips_df, warnings,
          selected_team, min_conf, combined_df, filtered_df, upsets, page,
          team_name, logo, start_time, now, countdown>>

pipeVars == <<teams_resp, games_resp, tips_resp, all_games, tips_df, warnings,
              selected_team, min_conf, combined_df, filtered_df, upsets, page>>
logoVars == <<team_name, logo>>
clockVars == <<start_time, now, countdown>>

(***************************************************************************)
(* Generic helpers                                                         *)
(***************************************************************************)
None == <<>>
Some(v) == <<v>>

\* dict.get(k): None when the key is missing
Get(obj, k) == IF k \in DOMAIN obj THEN Some(obj[k]) ELSE None

\* dict.get(k, default)
GetOr(obj, k, default) == IF k \in DOMAIN obj THEN obj[k] ELSE default

\* Series.fillna(0) on one cell
FillNa0(cell) == IF cell = None THEN 0 ELSE cell[1]

Min(S) == CHOOSE x \in S : \A y \in S : x <= y

SeqToSet(s) == {s[i] : i \in 1..Len(s)}

\* all sequences over S of length 0..n
SeqsUpTo(S, n) == UNION {[1..k -> S] : k \in 0..n}

DigitChars == <<"0", "1", "2", "3", "4", "5", "6", "7", "8", "9">>

RECURSIVE IntToStr(_)
\* str(n) for n >= 0
IntToStr(n) ==
    IF n < 10 THEN <<DigitChars[n + 1]>>
    ELSE IntToStr(n \div 10) \o <<DigitChars[(n % 10) + 1]>>

(***************************************************************************)
(* HTTP responses.  A response is                                          *)
(*   [exc |-> TRUE]                          requests.get raised           *)
(*   [exc |-> FALSE, status_code, body]      with body one of              *)
(*     [kind |-> "empty"]    no content                                    *)
(*     [kind |-> "text"]     content that response.json() cannot parse     *)
(*     [kind |-> "array"]    JSON whose top level is not an object         *)
(*     [kind |-> "object", value |-> obj]                                  *)
(***************************************************************************)
ConnectionError == [exc |-> TRUE]
Http(code, body) == [exc |-> FALSE, status_code |-> code, body |-> body]
EmptyBody == [kind |-> "empty"]
TextBody == [kind |-> "text"]
ArrayBody == [kind |-> "array"]
ObjectBody(obj) == [kind |-> "object", value |-> obj]

\* lines 22, 34, 109: status_code != 200 or not response.content
NoData(resp) == resp.status_code # 200 \/ resp.body.kind = "empty"

\* response.json().get(...) raises (ValueError, or AttributeError on a non-dict)
JsonRaises(resp) == resp.body.kind \in {"text", "array"}

EmptyFrame == <<>>

Columns(df) == IF df = <<>> THEN {} ELSE DOMAIN df[1]

(***************************************************************************)
(* get_team_name_map, lines 19-28.  Every function below returns its value *)
(* together with the st.warning calls it made.                             *)
(***************************************************************************)
WarnTeams == "Error fetching teams"
WarnGames == "Error fetching games"
WarnTips == "Error fetching tips"

\* line 25: a dict comprehension, so the last team with an id names it
TeamMapOf(teams) ==
    LET ok == {i \in 1..Len(teams) : {"id", "name"} \subseteq DOMAIN teams[i]}
        ids == {teams[i].id : i \in ok}
        last(id) == CHOOSE i \in ok : /\ teams[i].id = id
                                      /\ \A j \in ok : teams[j].id = id => j <= i
    IN  [id \in ids |-> teams[last(id)].name]

get_team_name_map(resp) ==
    IF resp.exc THEN [value |-> <<>>, warnings |-> <<WarnTeams>>]
    ELSE IF NoData(resp) THEN [value |-> <<>>, warnings |-> <<>>]
    ELSE IF JsonRaises(resp) THEN [value |-> <<>>, warnings |-> <<WarnTeams>>]
    ELSE [value |-> TeamMapOf(GetOr(resp.body.value, "teams", <<>>)),
          warnings |-> <<>>]

(***************************************************************************)
(* fetch_squiggle_games, lines 30-73 (lines 74-104 follow a return and are *)
(* never executed).  A date is [iso |-> TRUE, t |-> ticks] for a string    *)
(* datetime.fromisoformat parses to that time, and [iso |-> FALSE] for a   *)
(* string on which it raises ValueError.                                   *)
(***************************************************************************)
UnknownVenue == <<"U", "n", "k", "n", "o", "w", "n", " ", "V", "e", "n", "u", "e">>
NoPreview == "No preview available."

\* the test of line 39 with its "not" dropped
NotComplete_Negated(g) == "complete" \in DOMAIN g /\ g.complete # 0

\* not g.get("complete")
NotComplete(g) == ~("complete" \in DOMAIN g /\ g.complete # 0)

\* line 39
UpcomingGames(data) ==
    SelectSeq(data, LAMBDA g : NotComplete(g) /\ "round" \in DOMAIN g)

\* line 42
NextRound(data) == Min({g.round : g \in SeqToSet(UpcomingGames(data))})

\* line 46
HasGameKeys(game) == {"hteamid", "ateamid", "date", "round"} \subseteq DOMAIN game

\* lines 50-69
GameRow(game, team_map) ==
    [Game_ID      |-> Get(game, "id"),
     Round        |-> game.round,
     Start_Time   |-> game.date.t,
     Venue        |-> GetOr(game, "venue", UnknownVenue),
     Home_Team    |-> GetOr(team_map, game.hteamid, IntToStr(game.hteamid)),
     Away_Team    |-> GetOr(team_map, game.ateamid, IntToStr(game.ateamid)),
     Home_Team_ID |-> game.hteamid,
     Away_Team_ID |-> game.ateamid,
     Home_Odds    |-> Get(GetOr(game, "odds", <<>>), IntToStr(game.hteamid)),
     Away_Odds    |-> Get(GetOr(game, "odds", <<>>), IntToStr(game.ateamid)),
     Match_Preview |-> NoPreview]

RECURSIVE GamesLoop(_, _, _, _, _)
\* lines 44-69: the loop from record i on; raised when fromisoformat raises
GamesLoop(data, i, rows, team_map, next_round) ==
    IF i > Len(data) THEN [raised |-> FALSE, rows |-> rows]
    ELSE IF ~HasGameKeys(data[i])
        THEN GamesLoop(data, i + 1, rows, team_map, next_round)
    ELSE IF data[i].round # next_round
        THEN GamesLoop(data, i + 1, rows, team_map, next_round)
    ELSE IF ~data[i].date.iso THEN [raised |-> TRUE, rows |-> rows]
    ELSE GamesLoop(data, i + 1, Append(rows, GameRow(data[i], team_map)),
                   team_map, next_round)

fetch_squiggle_games(tresp, gresp) ==
    LET tm == get_team_name_map(tresp)
        data == GetOr(gresp.body.value, "games", <<>>)
        loop == GamesLoop(data, 1, <<>>, tm.value, NextRound(data))
    IN  IF gresp.exc
            THEN [value |-> EmptyFrame, warnings |-> tm.warnings \o <<WarnGames>>]
        ELSE IF NoData(gresp)
            THEN [value |-> EmptyFrame, warnings |-> tm.warnings]
        ELSE IF JsonRaises(gresp)
            THEN [value |-> EmptyFrame, warnings |-> tm.warnings \o <<WarnGames>>]
        ELSE IF UpcomingGames(data) = <<>>
            THEN [value |-> EmptyFrame, warnings |-> tm.warnings]
        ELSE IF loop.raised
            THEN [value |-> EmptyFrame, warnings |-> tm.warnings \o <<WarnGames>>]
        ELSE [value |-> loop.rows, warnings |-> tm.warnings]

(***************************************************************************)
(* fetch_squiggle_tips, lines 106-127                                      *)
(***************************************************************************)
\* line 114
HasTipKeys(tip) == {"hteamid", "ateamid", "gameid"} \subseteq DOMAIN tip

\* lines 116-123
TipRow(tip) ==
    [Game_ID      |-> Get(tip, "gameid"),
     Round        |-> Get(tip, "round"),
     Home_Team_ID |-> tip.hteamid,
     Away_Team_ID |-> tip.ateamid,
     Tip          |-> GetOr(tip, "tip", <<>>),
     Confidence   |-> Get(tip, "confidence")]

\* lines 112-123
TipsList(tips_data) ==
    LET kept == SelectSeq(tips_data, HasTipKeys)
    IN  [i \in 1..Len(kept) |-> TipRow(kept[i])]

fetch_squiggle_tips(resp) ==
    IF resp.exc THEN [value |-> EmptyFrame, warnings |-> <<WarnTips>>]
    ELSE IF NoData(resp) THEN [value |-> EmptyFrame, warnings |-> <<>>]
    ELSE IF JsonRaises(resp) THEN [value |-> EmptyFrame, warnings |-> <<WarnTips>>]
    ELSE [value |-> TipsList(GetOr(resp.body.value, "tips", <<>>)),
          warnings |-> <<>>]

(***************************************************************************)
(* merge_games_and_tips, lines 129-137.  tips_df[[...]] raises KeyError    *)
(* when tips_df lacks one of the three columns; pd.merge(how="left") keeps *)
(* the order of games_df and gives one row per matching tips row, or one   *)
(* row with Tip and Confidence NaN when no tips row matches.               *)
(***************************************************************************)
TipColumns == {"Game_ID", "Tip", "Confidence"}

WithTip(game_row, tip, confidence) ==
    [k \in DOMAIN game_row \cup {"Tip", "Confidence"} |->
        IF k = "Tip" THEN tip
        ELSE IF k = "Confidence" THEN confidence
        ELSE game_row[k]]

\* the merged rows of one games row
MergeRow(game_row, tips) ==
    LET hits == SelectSeq(tips, LAMBDA t : t.Game_ID = game_row.Game_ID)
    IN  IF hits = <<>> THEN <<WithTip(game_row, None, None)>>
        ELSE [i \in 1..Len(hits) |->
                 WithTip(game_row, Some(hits[i].Tip), hits[i].Confidence)]

RECURSIVE LeftMerge(_, _)
LeftMerge(games, tips) ==
    IF games = <<>> THEN <<>>
    ELSE MergeRow(Head(games), tips) \o LeftMerge(Tail(games), tips)

merge_games_and_tips(games_df, tips) ==
    IF games_df = <<>> THEN [raised |-> FALSE, value |-> games_df]
    ELSE IF ~(TipColumns \subseteq Columns(tips))
        THEN [raised |-> TRUE, value |-> EmptyFrame]
    ELSE [raised |-> FALSE, value |-> LeftMerge(games_df, tips)]

(***************************************************************************)
(* get_team_logo, lines 139-141                                            *)
(***************************************************************************)
UpperChars == <<"A", "B", "C", "D", "E", "F", "G", "H", "I", "J", "K", "L", "M",
                "N", "O", "P", "Q", "R", "S", "T", "U", "V", "W", "X", "Y", "Z">>
LowerChars == <<"a", "b", "c", "d", "e", "f", "g", "h", "i", "j", "k", "l", "m",
                "n", "o", "p", "q", "r", "s", "t", "u", "v", "w", "x", "y", "z">>

\* line 15
TEAM_LOGO_URL ==
    <<"h", "t", "t", "p", "s", ":", "/", "/", "s", "q", "u", "i", "g", "g",
      "l", "e", ".", "c", "o", "m", ".", "a", "u", "/", "w", "p", "-", "c",
      "o", "n", "t", "e", "n", "t", "/", "t", "h", "e", "m", "e", "s", "/",
      "s", "q", "u", "i", "g", "g", "l", "e", "/", "a", "s", "s", "e", "t",
      "s", "/", "i", "m", "a", "g", "e", "s", "/", "l", "o", "g", "o", "s",
      "/">>

SvgSuffix == <<".", "s", "v", "g">>

\* str.lower() on one character
LowerChar(c) ==
    IF \E i \in 1..Len(UpperChars) : UpperChars[i] = c
        THEN LowerChars[CHOOSE i \in 1..Len(UpperChars) : UpperChars[i] = c]
        ELSE c

StrLower(s) == [i \in 1..Len(s) |-> LowerChar(s[i])]

\* str.replace(old, new, 1): only the first occurrence is replaced
StrReplace_FirstOnly(str, old, new) ==
    IF \E i \in 1..Len(str) : str[i] = old
        THEN LET k == CHOOSE i \in 1..Len(str) :
                          str[i] = old /\ \A j \in 1..(i - 1) : str[j] # old
             IN  SubSeq(str, 1, k - 1) \o new \o SubSeq(str, k + 1, Len(str))
        ELSE str

RECURSIVE StrReplace(_, _, _)
\* str.replace(old, new) for a one-character old
StrReplace(s, old, new) ==
    IF s = <<>> THEN <<>>
    ELSE (IF Head(s) = old THEN new ELSE <<Head(s)>>)
             \o StrReplace(Tail(s), old, new)

\* line 140
FormatTeamName(name) ==
    StrReplace(StrReplace(StrLower(name), " ", <<"-">>), "&", <<"a", "n", "d">>)

get_team_logo(name) == TEAM_LOGO_URL \o FormatTeamName(name) \o SvgSuffix

(***************************************************************************)
(* format_countdown, lines 149-156.  utcnow is the clock value the call    *)
(* reads at line 150.                                                      *)
(***************************************************************************)
TicksPerSecond == 2

KickOff == <<"K", "i", "c", "k", "-", "o", "f", "f", "!">>

\* the field printed without its :02
Pad2_Unpadded(n) == IntToStr(n)

\* the format spec :02 for n >= 0
Pad2(n) == IF n < 10 THEN <<"0">> \o IntToStr(n) ELSE IntToStr(n)

format_countdown(start, utcnow) ==
    LET delta == start - utcnow
        total == delta \div TicksPerSecond
        hours == total \div 3600
        remainder == total % 3600
        minutes == remainder \div 60
        seconds == remainder % 60
    IN  IF delta > 0
            THEN Pad2(hours) \o <<":">> \o Pad2(minutes) \o <<":">> \o Pad2(seconds)
            ELSE KickOff

(***************************************************************************)
(* The main block, lines 164-230: the operators of its steps               *)
(***************************************************************************)
\* line 178: the selectbox option that disables the team filter
AllOption == <<"A", "l", "l">>

\* line 204: 2.5, in tenths
UPSET_ODDS == 25

\* line 169: the rounds the selectbox offers
AvailableRounds(games) == {games[i].Round : i \in 1..Len(games)}

\* line 173
GamesOfRound(games, r) == SelectSeq(games, LAMBDA g : g.Round = r)

\* line 177
AllTeams(df) ==
    {df[i].Home_Team : i \in 1..Len(df)} \cup {df[i].Away_Team : i \in 1..Len(df)}

\* lines 182-183
TeamFilter(df, team) ==
    IF team # AllOption
        THEN SelectSeq(df, LAMBDA r : r.Home_Team = team \/ r.Away_Team = team)
        ELSE df

\* line 185 with the comparison turned round
ConfidenceAtMost(row, threshold) == FillNa0(row.Confidence) <= threshold

\* line 185, one row
ConfidenceAtLeast(row, threshold) == FillNa0(row.Confidence) >= threshold

\* lines 184-185
ConfidenceFilter(df, threshold) ==
    IF threshold > 0
        THEN SelectSeq(df, LAMBDA r : ConfidenceAtLeast(r, threshold))
        ELSE df

\* lines 181-185
ApplyFilters(df, team, threshold) ==
    ConfidenceFilter(TeamFilter(df, team), threshold)

\* line 204 with >= for >
IsUpset_NonStrict(row) ==
    row.Tip = Some(row.Away_Team) /\ FillNa0(row.Away_Odds) >= UPSET_ODDS

\* line 204, one row
IsUpset(row) ==
    row.Tip = Some(row.Away_Team) /\ FillNa0(row.Away_Odds) > UPSET_ODDS

\* line 204
UpsetsOf(df) == SelectSeq(df, IsUpset)

\* df without its row i
WithoutRow(df, i) == SubSeq(df, 1, i - 1) \o SubSeq(df, i + 1, Len(df))

RECURSIVE SortedFrames(_)
\* line 188: the frames sort_values("Start Time") may give (its default sort
\* is not stable, so rows of equal start time come in either order).  Of
\* equal rows only the first is tried as the next row: the others give the
\* same frames.
SortedFrames(df) ==
    IF df = <<>> THEN {<<>>}
    ELSE LET firsts ==
                 {i \in 1..Len(df) :
                     /\ \A j \in 1..Len(df) : df[i].Start_Time <= df[j].Start_Time
                     /\ \A j \in 1..(i - 1) : df[j] # df[i]}
         IN  UNION {{<<df[i]>> \o rest : rest \in SortedFrames(WithoutRow(df, i))} :
                       i \in firsts}

\* lines 189-201: one expander (strftime of the start time is left as the time)
Expander(row, utcnow) ==
    [kind      |-> "expander",
     home      |-> row.Home_Team,
     away      |-> row.Away_Team,
     start     |-> row.Start_Time,
     countdown |-> format_countdown(row.Start_Time, utcnow),
     logos     |-> <<get_team_logo(row.Home_Team), get_team_logo(row.Away_Team)>>,
     venue     |-> row.Venue,
     home_odds |-> row.Home_Odds,
     away_odds |-> row.Away_Odds,
     tip       |-> IF row.Tip # None THEN Some(<<row.Tip[1], row.Confidence>>)
                   ELSE None,
     preview   |-> row.Match_Preview]

\* line 208
ConfData(df) == SelectSeq(df, LAMBDA r : r.Confidence # None)

RECURSIVE SumConfidence(_)
SumConfidence(df) ==
    IF df = <<>> THEN 0 ELSE Head(df).Confidence[1] + SumConfidence(Tail(df))

\* line 211: one bar per tipped team, its mean confidence total / n
ConfidenceBars(conf) ==
    {[tip   |-> t,
      total |-> SumConfidence(SelectSeq(conf, LAMBDA r : r.Tip = t)),
      n     |-> Len(SelectSeq(conf, LAMBDA r : r.Tip = t))]
        : t \in {conf[i].Tip : i \in 1..Len(conf)}}

\* line 218: idxmax gives the first row of greatest confidence
TopTip(conf) ==
    conf[CHOOSE i \in 1..Len(conf) :
            /\ \A j \in 1..Len(conf) : conf[j].Confidence[1] <= conf[i].Confidence[1]
            /\ \A j \in 1..(i - 1) : conf[j].Confidence[1] < conf[i].Confidence[1]]

\* line 221
BiggestUpset(ups) ==
    ups[CHOOSE i \in 1..Len(ups) :
            /\ \A j \in 1..Len(ups) : ups[j].Away_Odds[1] <= ups[i].Away_Odds[1]
            /\ \A j \in 1..(i - 1) : ups[j].Away_Odds[1] < ups[i].Away_Odds[1]]

NoRoundsInfo == [kind |-> "info", text |-> "No rounds available yet."]
ErrorBox == [kind |-> "error", text |-> "Error fetching data"]
NoUpsetsText == [kind |-> "dataframe", text |-> "No big upsets found this week!"]

NoResponse == <<>>

(***************************************************************************)
(* The render pass as a state machine.  One pass runs the script top to    *)
(* bottom; st_autorefresh (line 161) starts the next pass.                 *)
(***************************************************************************)
InitPipe ==
    /\ teams_resp = NoResponse
    /\ games_resp = NoResponse
    /\ tips_resp = NoResponse
    /\ all_games = EmptyFrame
    /\ tips_df = EmptyFrame
    /\ warnings = <<>>
    /\ selected_team = AllOption
    /\ min_conf = 0
    /\ combined_df = EmptyFrame
    /\ filtered_df = EmptyFrame
    /\ upsets = EmptyFrame
    /\ page = <<>>

InitLogo == team_name = <<>> /\ logo = <<>>

InitClock == start_time = 0 /\ now = 0 /\ countdown = <<>>

\* line 166 (with the teams request of line 32)
FetchGames(TeamResponses, GamesResponses) ==
    /\ pc = "fetch_games"
    /\ \E tr \in TeamResponses, gr \in GamesResponses :
          LET r == fetch_squiggle_games(tr, gr)
          IN  /\ teams_resp' = tr
              /\ games_resp' = gr
              /\ all_games' = r.value
              /\ warnings' = warnings \o r.warnings
    /\ pc' = "fetch_tips"
    /\ UNCHANGED <<tips_resp, tips_df, selected_team, min_conf, combined_df,
                   filtered_df, upsets, page, logoVars, clockVars>>

\* line 167
FetchTips(TipsResponses) ==
    /\ pc = "fetch_tips"
    /\ \E r \in TipsResponses :
          /\ tips_resp' = r
          /\ tips_df' = fetch_squiggle_tips(r).value
          /\ warnings' = warnings \o fetch_squiggle_tips(r).warnings
    /\ pc' = "select_round"
    /\ UNCHANGED <<teams_resp, games_resp, all_games, selected_team, min_conf,
                   combined_df, filtered_df, upsets, page, logoVars, clockVars>>

\* lines 169-174, and 226-227 when no round is offered, 229-230 when the
\* merge raises
SelectRound ==
    /\ pc = "select_round"
    /\ IF AvailableRounds(all_games) = {}
          THEN /\ page' = Append(page, NoRoundsInfo)
               /\ pc' = "done"
               /\ UNCHANGED combined_df
          ELSE \E selected_round \in AvailableRounds(all_games) :
                  LET m == merge_games_and_tips(
                               GamesOfRound(all_games, selected_round), tips_df)
                  IN  IF m.raised
                          THEN /\ page' = Append(page, ErrorBox)
                               /\ pc' = "done"
                               /\ UNCHANGED combined_df
                          ELSE /\ combined_df' = m.value
                               /\ page' = page
                               /\ pc' = "filters"
    /\ UNCHANGED <<teams_resp, games_resp, tips_resp, all_games, tips_df, warnings,
                   selected_team, min_conf, filtered_df, upsets, logoVars, clockVars>>

\* lines 176-185: the two widgets and the filters
Filters(Thresholds) ==
    /\ pc = "filters"
    /\ \E team \in {AllOption} \cup AllTeams(combined_df), threshold \in Thresholds :
          /\ selected_team' = team
          /\ min_conf' = threshold
          /\ filtered_df' = ApplyFilters(combined_df, team, threshold)
    /\ pc' = "matches"
    /\ UNCHANGED <<teams_resp, games_resp, tips_resp, all_games, tips_df, warnings,
                   combined_df, upsets, page, logoVars, clockVars>>

\* lines 187-201
Matches ==
    /\ pc = "matches"
    /\ \E sorted \in SortedFrames(filtered_df) :
          page' = page \o <<[kind |-> "subheader", text |-> "Matches"]>>
                       \o [i \in 1..Len(sorted) |-> Expander(sorted[i], now)]
    /\ pc' = "upsets"
    /\ UNCHANGED <<teams_resp, games_resp, tips_resp, all_games, tips_df, warnings,
                   selected_team, min_conf, combined_df, filtered_df, upsets,
                   logoVars, clockVars>>

\* lines 203-205
Upsets ==
    /\ pc = "upsets"
    /\ upsets' = UpsetsOf(filtered_df)
    /\ page' = page \o <<[kind |-> "subheader", text |-> "Potential Upset Picks"],
                         IF UpsetsOf(filtered_df) # <<>>
                             THEN [kind |-> "dataframe", rows |-> UpsetsOf(filtered_df)]
                             ELSE NoUpsetsText>>
    /\ pc' = "summary"
    /\ UNCHANGED <<teams_resp, games_resp, tips_resp, all_games, tips_df, warnings,
                   selected_team, min_conf, combined_df, filtered_df,
                   logoVars, clockVars>>

\* lines 207-224 (the CSV link is recorded by the frame it encodes)
Summary ==
    /\ pc = "summary"
    /\ LET conf == ConfData(filtered_df)
       IN  page' = page
              \o (IF conf # <<>>
                     THEN <<[kind |-> "chart", bars |-> ConfidenceBars(conf)],
                            [kind |-> "top_tip", row |-> TopTip(conf)]>>
                     ELSE <<>>)
              \o (IF upsets # <<>>
                     THEN <<[kind |-> "biggest_upset", row |-> BiggestUpset(upsets)]>>
                     ELSE <<>>)
              \o <<[kind |-> "csv_link", rows |-> filtered_df]>>
    /\ pc' = "done"
    /\ UNCHANGED <<teams_resp, games_resp, tips_resp, all_games, tips_df, warnings,
                   selected_team, min_conf, combined_df, filtered_df, upsets,
                   logoVars, clockVars>>

\* line 161: the next pass starts from scratch
Refresh ==
    /\ pc = "done"
    /\ pc' = "fetch_games"
    /\ teams_resp' = NoResponse
    /\ games_resp' = NoResponse
    /\ tips_resp' = NoResponse
    /\ all_games' = EmptyFrame
    /\ tips_df' = EmptyFrame
    /\ warnings' = <<>>
    /\ selected_team' = AllOption
    /\ min_conf' = 0
    /\ combined_df' = EmptyFrame
    /\ filtered_df' = EmptyFrame
    /\ upsets' = EmptyFrame
    /\ page' = <<>>
    /\ UNCHANGED <<logoVars, clockVars>>

(***************************************************************************)
(* Inputs of the render pass                                               *)
(***************************************************************************)
MaxMainGames == 2
MaxMainTips == 2

GoldCoast == <<"G", "o", "l", "d", " ", "C", "o", "a", "s", "t">>

IsoDate(t) == [iso |-> TRUE, t |-> t]
BadDate == [iso |-> FALSE]

\* team 1 is named, team 2 has no name and is shown by its id
MainTeams == <<[id |-> 1, name |-> GoldCoast], [id |-> 2]>>

MainTeamResponses ==
    {ConnectionError, Http(500, TextBody), Http(200, ObjectBody([teams |-> MainTeams]))}

MainGameRecords ==
    {[id |-> 1, round |-> 1, complete |-> 0, hteamid |-> 1, ateamid |-> 2,
      date |-> IsoDate(3723 * TicksPerSecond),
      odds |-> (<<"1">> :> 14 @@ <<"2">> :> 30)],
     [id |-> 2, round |-> 1, complete |-> 100, hteamid |-> 2, ateamid |-> 1,
      date |-> IsoDate(0), venue |-> <<"M", "C", "G">>],
     [id |-> 3, round |-> 2, hteamid |-> 1, ateamid |-> 2, date |-> IsoDate(1)]}

MainGamesResponses ==
    {ConnectionError, Http(503, TextBody), Http(200, EmptyBody), Http(200, TextBody),
     Http(200, ArrayBody), Http(200, ObjectBody(<<>>))}
    \cup {Http(200, ObjectBody([games |-> data])) :
             data \in SeqsUpTo(MainGameRecords, MaxMainGames)}

MainTipRecords ==
    {[gameid |-> 1, round |-> 1, hteamid |-> 1, ateamid |-> 2,
      tip |-> <<"2">>, confidence |-> 60],
     [gameid |-> 1, round |-> 1, hteamid |-> 1, ateamid |-> 2, tip |-> GoldCoast],
     [hteamid |-> 1, ateamid |-> 2, tip |-> <<"2">>, confidence |-> 40]}

MainTipsResponses ==
    {ConnectionError, Http(404, EmptyBody), Http(200, EmptyBody), Http(200, TextBody),
     Http(200, ObjectBody(<<>>))}
    \cup {Http(200, ObjectBody([tips |-> data])) :
             data \in SeqsUpTo(MainTipRecords, MaxMainTips)}

MainThresholds == {0, 60}

Init == pc = "fetch_games" /\ InitPipe /\ InitLogo /\ InitClock

Next ==
    \/ FetchGames(MainTeamResponses, MainGamesResponses)
    \/ FetchTips(MainTipsResponses)
    \/ SelectRound
    \/ Filters(MainThresholds)
    \/ Matches
    \/ Upsets
    \/ Summary
    \/ Refresh

Spec == Init /\ [][Next]_vars

(***************************************************************************)
(* Properties of the render pass (specification Spec)                      *)
(***************************************************************************)
Fetched == pc \notin {"fetch_games", "fetch_tips"}
Merged == pc \notin {"fetch_games", "fetch_tips", "select_round"}

PageHas(element) == \E i \in 1..Len(page) : page[i] = element
Expanders == {i \in 1..Len(page) : page[i].kind = "expander"}

\* the failures of a request: it raised, a status other than 200, no body, or
\* a body that is not a JSON object
Failed(resp) ==
    \/ resp.exc
    \/ resp.status_code # 200
    \/ resp.body.kind \in {"empty", "text", "array"}

Warned(w) == \E i \in 1..Len(warnings) : warnings[i] = w

\* C1: the merge keeps the game count: once the games of the round are merged
\* with whatever the tips fetch returned, the merged table has one row per
\* game (never the error branch, never more rows than games), and a game
\* without a tip has Tip and Confidence absent.
C1_MergeKeepsGameCount ==
    (Merged /\ all_games # EmptyFrame) =>
        /\ ~PageHas(ErrorBox)
        /\ Len(combined_df) = Len(all_games)
        /\ \A i \in 1..Len(combined_df) :
              /\ combined_df[i].Game_ID = all_games[i].Game_ID
              /\ (\A j \in 1..Len(tips_df) : tips_df[j].Game_ID # all_games[i].Game_ID)
                    => combined_df[i].Tip = None /\ combined_df[i].Confidence = None

\* C3: with at least one game fetched and an empty tips table (the tips fetch
\* failed or returned no tips), the pass does not end in the error branch and
\* renders the round's games, tips absent.
C3_EmptyTipsStillRenders ==
    (Merged /\ all_games # EmptyFrame /\ tips_df = EmptyFrame) =>
        /\ ~PageHas(ErrorBox)
        /\ pc = "done" =>
              /\ Cardinality(Expanders) = Len(filtered_df)
              /\ \A i \in Expanders : page[i].tip = None

\* C4: every failed request of the three fetches gives an empty result and a
\* warning naming the fetch.
C4_FailuresWarn ==
    Fetched =>
        /\ Failed(teams_resp) =>
              /\ Warned(WarnTeams)
              /\ \A i \in 1..Len(all_games) :
                    all_games[i].Home_Team = IntToStr(all_games[i].Home_Team_ID)
        /\ Failed(games_resp) => all_games = EmptyFrame /\ Warned(WarnGames)
        /\ Failed(tips_resp) => tips_df = EmptyFrame /\ Warned(WarnTips)

\* the games endpoint answered with a JSON object none of whose games is
\* incomplete (it may list no game at all)
NoIncompleteGame ==
    /\ ~Failed(games_resp)
    /\ LET data == IF "games" \in DOMAIN games_resp.body.value
                       THEN games_resp.body.value.games ELSE <<>>
       IN  \A i \in 1..Len(data) :
              "complete" \in DOMAIN data[i] /\ data[i].complete # 0

\* C5: when the games endpoint returns no game, or no incomplete game, then
\* whatever the tips fetch returned the pass ends with the placeholder "No
\* rounds available yet." as all it shows: no match row, no error.
C5_NoGamesPlaceholder ==
    (Merged /\ NoIncompleteGame) => pc = "done" /\ page = <<NoRoundsInfo>>

C5_Witness ==
    /\ pc = "done"
    /\ NoIncompleteGame
    /\ "games" \in DOMAIN games_resp.body.value
    /\ games_resp.body.value.games # <<>>
    /\ tips_df # EmptyFrame
    /\ page = <<NoRoundsInfo>>

(***************************************************************************)
(* Specification SpecGames: fetch_squiggle_games on every list of at most  *)
(* MaxGames records, each with or without a round, a home team id, an away *)
(* team id, a date (well or ill formed) and a completion percentage.       *)
(***************************************************************************)
MaxGames == 2

\* the JSON object holding the fields of opts that are not None
OptObj(opts) == [k \in {f \in DOMAIN opts : opts[f] # None} |-> opts[k][1]]

GameOptions ==
    [round    : {None, Some(1), Some(2)},
     hteamid  : {None, Some(1)},
     ateamid  : {None, Some(2)},
     date     : {None, Some(BadDate), Some(IsoDate(5))},
     complete : {None, Some(0), Some(100)}]

\* the records of a list carry their position as id
GamesLists ==
    {[i \in 1..Len(s) |-> OptObj([id |-> Some(i)] @@ s[i])] :
        s \in SeqsUpTo(GameOptions, MaxGames)}

InitGames == pc = "fetch_games" /\ InitPipe /\ InitLogo /\ InitClock

NextGames ==
    FetchGames({Http(200, ObjectBody([teams |-> MainTeams]))},
               {Http(200, ObjectBody([games |-> data])) : data \in GamesLists})

SpecGames == InitGames /\ [][NextGames]_vars

ResponseGames == games_resp.body.value.games

\* a record the spec calls valid: both team ids, a round and a date that parses
ValidRecord(g) ==
    /\ {"hteamid", "ateamid", "date", "round"} \subseteq DOMAIN g
    /\ g.date.iso

IncompleteWithRound(g) ==
    /\ "round" \in DOMAIN g
    /\ ("complete" \in DOMAIN g => g.complete = 0)

\* the earliest round holding an incomplete game (0 when there is none)
EarliestOpenRound ==
    LET open == {ResponseGames[i].round :
                    i \in {j \in 1..Len(ResponseGames) :
                              IncompleteWithRound(ResponseGames[j])}}
    IN  IF open = {} THEN 0 ELSE CHOOSE r \in open : \A q \in open : r <= q

\* the positions of the valid records of the selected round
ValidOfRound ==
    {i \in 1..Len(ResponseGames) :
        ValidRecord(ResponseGames[i]) /\ ResponseGames[i].round = EarliestOpenRound}

\* C2: invalid records are dropped one by one: the table holds as many rows as
\* the response has valid records of the selected round.
C2_InvalidDroppedAlone ==
    pc = "fetch_tips" => Len(all_games) = Cardinality(ValidOfRound)

\* C10: the table holds exactly the valid records of the earliest round with
\* an incomplete game, each row of that round, and is empty when no record is
\* incomplete.
C10_EarliestOpenRound ==
    pc = "fetch_tips" =>
        /\ \A i \in 1..Len(all_games) : all_games[i].Round = EarliestOpenRound
        /\ {all_games[i].Game_ID[1] : i \in 1..Len(all_games)} = ValidOfRound
        /\ EarliestOpenRound = 0 => all_games = EmptyFrame

(***************************************************************************)
(* Specification SpecFilter: the filters of lines 181-185 on every merged  *)
(* table of at most MaxRows rows, the slider moved any number of times.    *)
(***************************************************************************)
MaxRows == 2

TeamA == <<"A">>
TeamB == <<"B">>
TeamC == <<"C">>

\* a row of the merged table (the columns of lines 57-69 and of line 134)
MergedRow(home, away, tip, confidence, away_odds) ==
    [Game_ID       |-> Some(1),
     Round         |-> 1,
     Start_Time    |-> 0,
     Venue         |-> UnknownVenue,
     Home_Team     |-> home,
     Away_Team     |-> away,
     Home_Team_ID  |-> 1,
     Away_Team_ID  |-> 2,
     Home_Odds     |-> None,
     Away_Odds     |-> away_odds,
     Match_Preview |-> NoPreview,
     Tip           |-> tip,
     Confidence    |-> confidence]

FilterRows ==
    {MergedRow(t[1], t[2], IF c = None THEN None ELSE Some(t[1]), c, None) :
        t \in {<<TeamA, TeamB>>, <<TeamB, TeamC>>},
        c \in {None, Some(0), Some(50), Some(100)}}

\* positions of the slider of line 179 (it runs from 0 to 100)
SliderPositions == {0, 1, 50, 51, 100}

\* a rerun of lines 179-185 after the slider is moved, the data unchanged
MoveSlider(Thresholds) ==
    /\ pc = "matches"
    /\ \E threshold \in Thresholds :
          /\ min_conf' = threshold
          /\ filtered_df' = ApplyFilters(combined_df, selected_team, threshold)
    /\ UNCHANGED <<pc, teams_resp, games_resp, tips_resp, all_games, tips_df,
                   warnings, selected_team, combined_df, upsets, page,
                   logoVars, clockVars>>

InitFilter ==
    /\ pc = "filters"
    /\ teams_resp = NoResponse /\ games_resp = NoResponse /\ tips_resp = NoResponse
    /\ all_games = EmptyFrame /\ tips_df = EmptyFrame /\ warnings = <<>>
    /\ selected_team = AllOption /\ min_conf = 0
    /\ combined_df \in SeqsUpTo(FilterRows, MaxRows)
    /\ filtered_df = EmptyFrame /\ upsets = EmptyFrame /\ page = <<>>
    /\ InitLogo /\ InitClock

NextFilter == Filters(SliderPositions) \/ MoveSlider(SliderPositions)

SpecFilter == InitFilter /\ [][NextFilter]_vars

RECURSIVE IsSubSeq(_, _)
\* a is b with some rows left out
IsSubSeq(a, b) ==
    IF a = <<>> THEN TRUE
    ELSE IF b = <<>> THEN FALSE
    ELSE IF Head(a) = Head(b) THEN IsSubSeq(Tail(a), Tail(b))
    ELSE IsSubSeq(a, Tail(b))

AbsentConfidenceKept(df) == \E i \in 1..Len(df) : df[i].Confidence = None

\* C6: raising the threshold never adds a row: the rows kept at the higher
\* threshold are among those kept at the lower one (threshold 0 included),
\* and a row of absent confidence is kept at threshold 0 only.
C6_Step ==
    /\ (pc = "matches" /\ pc' = "matches" /\ min_conf' >= min_conf) =>
          /\ IsSubSeq(filtered_df', filtered_df)
          /\ Len(filtered_df') <= Len(filtered_df)
    /\ pc' = "matches" =>
          /\ AbsentConfidenceKept(filtered_df') => min_conf' = 0
          /\ min_conf' = 0 =>
                \A i \in 1..Len(combined_df') :
                    (selected_team' \in {AllOption, combined_df'[i].Home_Team,
                                         combined_df'[i].Away_Team})
                        => \E j \in 1..Len(filtered_df') :
                              filtered_df'[j] = combined_df'[i]

C6_ConfidenceFilterMonotonic == [][C6_Step]_vars

C6_Witness ==
    /\ pc = "matches"
    /\ min_conf = 51
    /\ AbsentConfidenceKept(combined_df)
    /\ Len(filtered_df) = 1
    /\ Len(combined_df) = 2

(***************************************************************************)
(* Specification SpecUpsets: lines 203-224 on every filtered table of at   *)
(* most MaxRows rows.                                                      *)
(***************************************************************************)
UpsetRows ==
    {MergedRow(TeamA, TeamB, tip, IF tip = None THEN None ELSE Some(60), odds) :
        tip \in {None, Some(TeamA), Some(TeamB), Some(<<>>)},
        odds \in {None, Some(25), Some(26), Some(30)}}

InitUpsets ==
    /\ pc = "upsets"
    /\ teams_resp = NoResponse /\ games_resp = NoResponse /\ tips_resp = NoResponse
    /\ all_games = EmptyFrame /\ tips_df = EmptyFrame /\ warnings = <<>>
    /\ selected_team = AllOption /\ min_conf = 0
    /\ filtered_df \in SeqsUpTo(UpsetRows, MaxRows)
    /\ combined_df = filtered_df
    /\ upsets = EmptyFrame /\ page = <<>>
    /\ InitLogo /\ InitClock

NextUpsets == Upsets \/ Summary

SpecUpsets == InitUpsets /\ [][NextUpsets]_vars

\* the away team is tipped at away odds above 2.5
UpsetPick(row) ==
    /\ row.Tip # None
    /\ row.Tip[1] = row.Away_Team
    /\ row.Away_Odds # None
    /\ row.Away_Odds[1] > 25

\* C7: the upset picks are exactly the filtered rows whose Tip is their Away
\* Team and whose Away Odds exceed 2.5, each row judged on its own fields.
C7_UpsetPredicate ==
    pc \in {"summary", "done"} =>
        /\ IsSubSeq(upsets, filtered_df)
        /\ \A j \in 1..Len(upsets) : UpsetPick(upsets[j])
        /\ Len(upsets) =
              Cardinality({i \in 1..Len(filtered_df) : UpsetPick(filtered_df[i])})

C7_Witness ==
    /\ pc = "summary"
    /\ Len(filtered_df) = 2
    /\ filtered_df[1].Tip = Some(TeamB) /\ filtered_df[1].Away_Odds = Some(25)
    /\ filtered_df[2].Tip = Some(TeamB) /\ filtered_df[2].Away_Odds = Some(30)
    /\ upsets = <<filtered_df[2]>>

(***************************************************************************)
(* Specification SpecCountdown: format_countdown for start times up to and *)
(* beyond 100 hours away, at every clock value up to MaxNow ticks.         *)
(***************************************************************************)
MaxNow == 4

\* start times, in ticks: hours, minutes, seconds and a fraction of a second
StartTimes ==
    {((h * 3600 + m * 60 + sec) * TicksPerSecond) + f :
        h \in {0, 1, 99, 100}, m \in {0, 2, 59}, sec \in {0, 1, 3, 59},
        f \in 0..(TicksPerSecond - 1)}

InitCountdown ==
    /\ pc = "countdown"
    /\ InitPipe /\ InitLogo
    /\ start_time \in StartTimes
    /\ now \in 0..MaxNow
    /\ countdown = <<>>

\* one call of format_countdown
FormatCountdown ==
    /\ pc = "countdown"
    /\ countdown' = format_countdown(start_time, now)
    /\ pc' = "countdown_done"
    /\ UNCHANGED <<pipeVars, logoVars, start_time, now>>

\* the clock advances before the next pass calls it again
Tick ==
    /\ pc = "countdown_done"
    /\ now < MaxNow
    /\ now' = now + 1
    /\ pc' = "countdown"
    /\ UNCHANGED <<pipeVars, logoVars, start_time, countdown>>

NextCountdown == FormatCountdown \/ Tick

SpecCountdown == InitCountdown /\ [][NextCountdown]_vars

IsDigit(c) == \E i \in 1..Len(DigitChars) : DigitChars[i] = c

DigitValue(c) == (CHOOSE i \in 1..Len(DigitChars) : DigitChars[i] = c) - 1

RECURSIVE DecimalValue(_)
DecimalValue(str) ==
    IF str = <<>> THEN 0
    ELSE 10 * DecimalValue(SubSeq(str, 1, Len(str) - 1)) + DigitValue(str[Len(str)])

\* str reads H..H:MM:SS, with at least two digits of hours
IsClockString(str) ==
    /\ Len(str) >= 8
    /\ str[Len(str) - 2] = ":"
    /\ str[Len(str) - 5] = ":"
    /\ \A i \in 1..Len(str) : i \notin {Len(str) - 2, Len(str) - 5} => IsDigit(str[i])

ClockHours(str) == DecimalValue(SubSeq(str, 1, Len(str) - 6))
ClockMinutes(str) == DecimalValue(SubSeq(str, Len(str) - 4, Len(str) - 3))
ClockSeconds(str) == DecimalValue(SubSeq(str, Len(str) - 1, Len(str)))

\* str is the zero-padded clock string of the whole seconds in ticks
ShowsRemaining(str, ticks) ==
    /\ IsClockString(str)
    /\ ClockMinutes(str) < 60
    /\ ClockSeconds(str) < 60
    /\ ClockHours(str) * 3600 + ClockMinutes(str) * 60 + ClockSeconds(str)
          = ticks \div TicksPerSecond

OneTwoThree == <<"0", "1", ":", "0", "2", ":", "0", "3">>

\* C8 as amended: a start time strictly after the clock gives the zero-padded
\* clock string of the whole seconds left ("01:02:03" for 1 h 2 min 3 s);
\* a start time equal to the clock or before it gives "Kick-off!".
C8_CountdownStrictlyAhead ==
    pc = "countdown_done" =>
        /\ start_time > now => ShowsRemaining(countdown, start_time - now)
        /\ start_time <= now => countdown = KickOff
        /\ start_time - now = 3723 * TicksPerSecond => countdown = OneTwoThree

C8_Witness ==
    /\ pc = "countdown_done"
    /\ start_time - now = 3723 * TicksPerSecond
    /\ countdown = OneTwoThree

\* C8 as stated: the clock string of max(0, start_time - now) for every start
\* time that has not passed, "Kick-off!" only once it has passed.
C8_CountdownUntilPassed ==
    pc = "countdown_done" =>
        /\ start_time >= now => ShowsRemaining(countdown, start_time - now)
        /\ countdown = KickOff => start_time < now

(***************************************************************************)
(* Specification SpecLogo: get_team_logo on every name of at most          *)
(* MaxNameLen characters over LogoAlphabet, and on the two names of the    *)
(* specification's examples.                                               *)
(***************************************************************************)
MaxNameLen == 3

LogoAlphabet == {"A", "b", " ", "&", "-"}

BrisbaneAndLions ==
    <<"B", "r", "i", "s", "b", "a", "n", "e", " ", "&", " ", "L", "i", "o", "n", "s">>

TeamNames == SeqsUpTo(LogoAlphabet, MaxNameLen) \cup {GoldCoast, BrisbaneAndLions}

InitLogoSpec ==
    /\ pc = "logo"
    /\ InitPipe /\ InitClock
    /\ team_name \in TeamNames
    /\ logo = <<>>

\* one call of get_team_logo
GetTeamLogo ==
    /\ pc = "logo"
    /\ logo' = get_team_logo(team_name)
    /\ pc' = "logo_done"
    /\ UNCHANGED <<pipeVars, clockVars, team_name>>

NextLogo == GetTeamLogo

SpecLogo == InitLogoSpec /\ [][NextLogo]_vars

\* what becomes of one character of the name: lower case, "-" for a space,
\* "and" for "&"
LogoChar(c) ==
    CASE c = " " -> <<"-">>
      [] c = "&" -> <<"a", "n", "d">>
      [] c = "A" -> <<"a">>
      [] c = "B" -> <<"b">>
      [] c = "C" -> <<"c">>
      [] c = "G" -> <<"g">>
      [] c = "L" -> <<"l">>
      [] OTHER -> <<c>>

RECURSIVE LogoStem(_)
LogoStem(name) ==
    IF name = <<>> THEN <<>> ELSE LogoChar(Head(name)) \o LogoStem(Tail(name))

GoldCoastSvg ==
    <<"g", "o", "l", "d", "-", "c", "o", "a", "s", "t", ".", "s", "v", "g">>

BrisbaneAndLionsSvg ==
    <<"b", "r", "i", "s", "b", "a", "n", "e", "-", "a", "n", "d", "-",
      "l", "i", "o", "n", "s", ".", "s", "v", "g">>

\* C9: the logo URL is the base path, the name lower-cased with "-" for each
\* space and "and" for each "&", and ".svg"; nothing after the base path is a
\* space or an "&".
C9_LogoUrl ==
    pc = "logo_done" =>
        /\ logo = TEAM_LOGO_URL \o LogoStem(team_name) \o SvgSuffix
        /\ \A i \in (Len(TEAM_LOGO_URL) + 1)..Len(logo) : logo[i] \notin {" ", "&"}
        /\ team_name = GoldCoast => logo = TEAM_LOGO_URL \o GoldCoastSvg
        /\ team_name = BrisbaneAndLions => logo = TEAM_LOGO_URL \o BrisbaneAndLionsSvg

C9_Witness ==
    /\ pc = "logo_done"
    /\ team_name = BrisbaneAndLions
    /\ logo = TEAM_LOGO_URL \o BrisbaneAndLionsSvg

====
